---- MODULE Spec2Model ----
(***************************************************************************)
(* Model of simulator/ingest_simulator.py: the replay client that loads    *)
(* readings, filters and sorts them, sends them in batches with a signed   *)
(* request per batch, sleeps between batches and folds each outcome into   *)
(* the run totals.                                                         *)
(*                                                                         *)
(* Strings are tuples of one-character strings, so that Python's string    *)
(* comparison (by code point) and datetime.fromisoformat (by position) are *)
(* computed on the characters, as the interpreter computes them.           *)
(***************************************************************************)
EXTENDS Integers, Sequences, FiniteSets, Bags, TLC

(***************************************************************************)
(* Characters and strings                                                  *)
(***************************************************************************)

\* ord() of the characters a timestamp string is made of.
Ord(c) ==
    CASE c = "+" -> 43 [] c = "-" -> 45 [] c = "." -> 46
      [] c = "0" -> 48 [] c = "1" -> 49 [] c = "2" -> 50 [] c = "3" -> 51
      [] c = "4" -> 52 [] c = "5" -> 53 [] c = "6" -> 54 [] c = "7" -> 55
      [] c = "8" -> 56 [] c = "9" -> 57 [] c = ":" -> 58
      [] c = "T" -> 84 [] c = "Z" -> 90

Digits == {"0", "1", "2", "3", "4", "5", "6", "7", "8", "9"}

\* Python's str < str: the first differing character decides, a proper
\* prefix is smaller.
RECURSIVE StrLess(_, _)
StrLess(a, b) ==
    IF b = <<>> THEN FALSE
    ELSE IF a = <<>> THEN TRUE
    ELSE IF Head(a) = Head(b) THEN StrLess(Tail(a), Tail(b))
    ELSE Ord(Head(a)) < Ord(Head(b))

\* str.replace('Z', '+00:00'): every occurrence is replaced.
RECURSIVE ReplaceZ(_)
ReplaceZ(s) ==
    IF s = <<>> THEN <<>>
    ELSE IF Head(s) = "Z" THEN <<"+", "0", "0", ":", "0", "0">> \o ReplaceZ(Tail(s))
    ELSE <<Head(s)>> \o ReplaceZ(Tail(s))

(***************************************************************************)
(* datetime.fromisoformat and datetime arithmetic                          *)
(***************************************************************************)

AllDigits(s, from, to) == \A k \in from..to : s[k] \in Digits

RECURSIVE Num(_, _, _)
Num(s, from, to) ==
    IF to < from THEN 0 ELSE Num(s, from, to - 1) * 10 + (Ord(s[to]) - 48)

IsLeap(y) == (y % 4 = 0) /\ ((y % 100 # 0) \/ (y % 400 = 0))

DaysInMonth(y, m) ==
    IF m = 2 THEN (IF IsLeap(y) THEN 29 ELSE 28)
    ELSE IF m \in {4, 6, 9, 11} THEN 30 ELSE 31

\* Days of the proleptic Gregorian calendar from 1970-01-01 to y-m-d.
DaysFromCivil(y, m, d) ==
    LET yy  == IF m <= 2 THEN y - 1 ELSE y
        era == yy \div 400
        yoe == yy - era * 400
        mp  == (m + 9) % 12
        doy == (153 * mp + 2) \div 5 + d - 1
        doe == yoe * 365 + yoe \div 4 - yoe \div 100 + doy
    IN  era * 146097 + doe - 719468

\* The date part YYYY-MM-DD at s[1..10]: days since 1970-01-01; ok is FALSE
\* where Python raises ValueError.
ParseDate(s) ==
    IF ~(AllDigits(s, 1, 4) /\ s[5] = "-" /\ AllDigits(s, 6, 7)
         /\ s[8] = "-" /\ AllDigits(s, 9, 10))
    THEN [ok |-> FALSE, days |-> 0]
    ELSE LET y == Num(s, 1, 4)
             m == Num(s, 6, 7)
             d == Num(s, 9, 10)
         IN  IF y >= 1 /\ m \in 1..12 /\ d >= 1 /\ d <= DaysInMonth(y, m)
             THEN [ok |-> TRUE, days |-> DaysFromCivil(y, m, d)]
             ELSE [ok |-> FALSE, days |-> 0]

\* The time part HH:MM:SS[.fff[fff]] in t: seconds of the day and
\* microseconds.
ParseTime(t) ==
    LET n   == Len(t)
        bad == [ok |-> FALSE, sec |-> 0, us |-> 0]
    IN
    IF ~(n \in {8, 12, 15}) THEN bad
    ELSE IF ~(AllDigits(t, 1, 2) /\ t[3] = ":" /\ AllDigits(t, 4, 5)
              /\ t[6] = ":" /\ AllDigits(t, 7, 8))
    THEN bad
    ELSE IF n > 8 /\ ~(t[9] = "." /\ AllDigits(t, 10, n)) THEN bad
    ELSE LET h  == Num(t, 1, 2)
             mi == Num(t, 4, 5)
             s  == Num(t, 7, 8)
             us == IF n = 8 THEN 0
                   ELSE IF n = 12 THEN Num(t, 10, 12) * 1000
                   ELSE Num(t, 10, 15)
         IN  IF h < 24 /\ mi < 60 /\ s < 60
             THEN [ok |-> TRUE, sec |-> h * 3600 + mi * 60 + s, us |-> us]
             ELSE bad

\* The offset +HH:MM or -HH:MM in o: seconds east of UTC.
ParseOffset(o) ==
    IF ~(Len(o) = 6 /\ o[1] \in {"+", "-"} /\ AllDigits(o, 2, 3)
         /\ o[4] = ":" /\ AllDigits(o, 5, 6))
    THEN [ok |-> FALSE, off |-> 0]
    ELSE LET h == Num(o, 2, 3)
             m == Num(o, 5, 6)
         IN  IF h < 24 /\ m < 60
             THEN [ok  |-> TRUE,
                   off |-> (IF o[1] = "-" THEN -1 ELSE 1) * (h * 3600 + m * 60)]
             ELSE [ok |-> FALSE, off |-> 0]

\* Where the offset starts in the time string t (the first + or -), or
\* Len(t) + 1 when there is none.
RECURSIVE OffsetAt(_, _)
OffsetAt(t, k) ==
    IF k > Len(t) THEN k
    ELSE IF t[k] \in {"+", "-"} THEN k ELSE OffsetAt(t, k + 1)

\* A string fromisoformat rejects (ValueError).
BadDt == [ok |-> FALSE, sec |-> 0, us |-> 0, aware |-> FALSE]

\* datetime.fromisoformat(s), for the forms YYYY-MM-DD and
\* YYYY-MM-DD?HH:MM:SS[.fff[fff]][+HH:MM]. The value is the instant as
\* seconds since 1970-01-01T00:00:00 UTC and the microseconds within that
\* second, and whether the datetime carries an offset.
fromisoformat(s) ==
    IF Len(s) < 10 THEN BadDt
    ELSE LET date == ParseDate(s) IN
    IF ~date.ok THEN BadDt
    ELSE IF Len(s) = 10
    THEN [ok |-> TRUE, sec |-> date.days * 86400, us |-> 0, aware |-> FALSE]
    ELSE IF Len(s) = 11 THEN BadDt
    ELSE LET t    == SubSeq(s, 12, Len(s))
             k    == OffsetAt(t, 1)
             tm   == ParseTime(SubSeq(t, 1, k - 1))
             off  == IF k > Len(t) THEN [ok |-> TRUE, off |-> 0]
                     ELSE ParseOffset(SubSeq(t, k, Len(t)))
         IN  IF ~tm.ok \/ ~off.ok THEN BadDt
             ELSE [ok    |-> TRUE,
                   sec   |-> date.days * 86400 + tm.sec - off.off,
                   us    |-> tm.us,
                   aware |-> k <= Len(t)]

\* The parse every use in the program makes of a timestamp string.
ParseTs(s) == fromisoformat(ReplaceZ(s))

\* datetime >= datetime and datetime <= datetime (both aware).
DtLeq(a, b) == a.sec < b.sec \/ (a.sec = b.sec /\ a.us <= b.us)

\* (a - b) as a timedelta, in microseconds.
DtDiff(a, b) == (a.sec - b.sec) * 1000000 + (a.us - b.us)

(***************************************************************************)
(* Inputs of a run                                                         *)
(***************************************************************************)

\* Rows of a source, readings per request and counts a response reports are
\* bounded.
MaxRows == 3

MaxBatch == 2

MaxReported == 1

\* Calls of the signer that are compared with one another.
MaxCalls == 2

\* "2024-01-01T00:00:00Z"
TS_A == <<"2", "0", "2", "4", "-", "0", "1", "-", "0", "1", "T", "0", "0", ":", "0", "0", ":", "0", "0", "Z">>

\* "2024-01-01T00:00:00.500Z": half a second after TS_A, and before it as a
\* string ("." < "Z").
TS_B == <<"2", "0", "2", "4", "-", "0", "1", "-", "0", "1", "T", "0", "0", ":", "0", "0", ":", "0", "0", ".", "5", "0", "0", "Z">>

\* "2024-01-01T01:00:01+01:00": the instant 00:00:01Z, one second after
\* TS_A, and after it as a string.
TS_D == <<"2", "0", "2", "4", "-", "0", "1", "-", "0", "1", "T", "0", "1", ":", "0", "0", ":", "0", "1", "+", "0", "1", ":", "0", "0">>

\* "2024-01-02T00:00:00Z": later than every reading.
TS_LATE == <<"2", "0", "2", "4", "-", "0", "1", "-", "0", "2", "T", "0", "0", ":", "0", "0", ":", "0", "0", "Z">>

\* "2024-01-01T00:00:01Z": the instant of TS_D in another notation.
TS_E == <<"2", "0", "2", "4", "-", "0", "1", "-", "0", "1", "T", "0", "0", ":", "0", "0", ":", "0", "1", "Z">>

\* "2024-01-01T00:00:00": a date and time without offset.
TS_NAIVE == <<"2", "0", "2", "4", "-", "0", "1", "-", "0", "1", "T", "0", "0", ":", "0", "0", ":", "0", "0">>

\* "550e8400-e29b-41d4-a716-446655440031"
SENSOR == <<"5", "5", "0", "e", "8", "4", "0", "0", "-", "e", "2", "9", "b", "-", "4", "1", "d", "4", "-", "a", "7", "1", "6", "-", "4", "4", "6", "6", "5", "5", "4", "4", "0", "0", "3", "1">>

\* A row as csv.DictReader yields it: cells is the number of cells the line
\* has; the fields past the last cell are None (restval).
RowOf(ts, sensor, temp, cells) ==
    [timestamp |-> ts, sensor_id |-> sensor, temperature_c |-> temp,
     cells |-> cells]

Row(ts, temp) == RowOf(ts, SENSOR, temp, 3)

\* The kinds of row a source is made of; a source is a sequence of them.
\* Kinds 1 to 3 are well formed; 4 has an unparseable timestamp, 5 a sensor
\* id that is no UUID, 6 a value that is no number, 7 an empty value cell; 8
\* is a line of two cells (no value cell) and 9 a line of one cell.
RowPool ==
    << Row(TS_A, <<"-", "1", "8", ".", "5">>), Row(TS_B, <<"1", "0">>),
       Row(TS_D, <<"-", "1", "8", ".", "5">>),
       Row(<<"b", "a", "d">>, <<"1", "0">>),
       RowOf(TS_A, <<"s", "1">>, <<"1", "0">>, 3),
       Row(TS_A, <<"a", "b", "c">>),
       Row(TS_A, <<>>),
       RowOf(TS_A, SENSOR, <<>>, 2),
       RowOf(TS_A, <<>>, <<>>, 1) >>

\* The well-formed kinds: the sources whole runs are explored over.
ReplayKinds == 1..3

SeqsUpTo(S, n) == UNION { [1..k -> S] : k \in 0..n }

\* --speed: the multiplier as a ratio (-1, 0, 3/2).
SpeedPool ==
    { [num |-> -1, den |-> 1], [num |-> 0, den |-> 1], [num |-> 3, den |-> 2] }

\* --batch-size
BatchSizePool == -1..MaxBatch

\* --start (the empty string stands for an absent option)
StartPool == { <<>>, TS_LATE }

\* --end
EndPool == { <<>> }

\* The bounds the time filter on its own is explored over.
BoundPool == { <<>>, TS_A, TS_B, TS_D, TS_E, TS_LATE, TS_NAIVE }

\* HMAC_SECRET ("s3cr3t", or unset)
SecretPool == { <<>>, <<"s", "3", "c", "r", "3", "t">> }

\* --device-id
DevicePool == { <<"d", "1">> }

\* Bodies, timestamps and device ids the signer on its own is called with:
\* short strings, some of which concatenate to the same message.
SignBodyPool == { <<"a">>, <<"a", "b">> }

SignTimestampPool == { <<"c">>, <<"b", "c">> }

SignDevicePool == { <<"d">>, <<"c", "d">> }

SignSecretPool == { <<"k">>, <<"s", "3", "c", "r", "3", "t">> }

\* datetime.utcnow().isoformat() + 'Z' at the time of a send.
NowPool ==
    { <<"2", "0", "2", "4", "-", "0", "6", "-", "0", "1", "T", "1", "2", ":", "0", "0", ":", "0", "0", "Z">>,
      <<"2", "0", "2", "4", "-", "0", "6", "-", "0", "1", "T", "1", "2", ":", "0", "0", ":", "0", "0", ".", "2", "5", "0", "0", "0", "0", "Z">> }

\* What the transport can do with one request: raise (exc), or return a
\* response with a status and a body that is empty, not JSON (text), or a
\* JSON object of the endpoint's contract: an optional processed count and
\* an optional errors list (its length is kept), or an error object with or
\* without a message (printed, and otherwise not used). rate_limit is the
\* value of the response's X-RateLimit-Remaining header, or "absent".
Reply(exc, status, content, hp, p, he, e, err) ==
    [exc |-> exc, status |-> status, content |-> content,
     has_processed |-> hp, processed |-> p, has_errors |-> he, errors |-> e,
     error |-> err, rate_limit |-> "absent"]

StatusPool == { 200, 201, 500 }

Replies ==
    { Reply(TRUE, 0, "none", FALSE, 0, FALSE, 0, "absent") }
    \cup { Reply(FALSE, st, c, FALSE, 0, FALSE, 0, "absent") :
              st \in StatusPool, c \in {"empty", "text"} }
    \cup { Reply(FALSE, st, "json", hp, IF hp THEN p ELSE 0,
                  he, IF he THEN e ELSE 0, "absent") :
              st \in StatusPool, hp \in BOOLEAN, p \in 0..MaxReported,
              he \in BOOLEAN, e \in 0..MaxReported }
    \cup { Reply(FALSE, st, "json", FALSE, 0, FALSE, 0, err) :
              st \in StatusPool, err \in {"message", "nomessage"} }

\* The values of the X-RateLimit-Remaining header of a response.
RateLimitPool == { "0", "7" }

WithRateLimit(reply, remaining) == [reply EXCEPT !.rate_limit = remaining]

\* The outcomes the header is explored with: the call raises, the batch is
\* rejected, or it is accepted with a processed count and an errors list.
RateLimitOutcomes ==
    { r \in Replies : \/ r.exc
                      \/ r.status = 500 /\ r.content = "empty"
                      \/ r.status = 200 /\ r.has_processed /\ r.has_errors }

\* What the transport can do when responses may carry the header.
RateLimitReplies ==
    RateLimitOutcomes
    \cup { WithRateLimit(reply, remaining) :
             reply \in { r \in RateLimitOutcomes : ~r.exc },
             remaining \in RateLimitPool }

(***************************************************************************)
(* The state of a run                                                      *)
(***************************************************************************)

VARIABLES
    pc,              \* where the run is
    csv_file,        \* the rows of the source (kinds of row, in order)
    speed, start_time, end_time, batch_size, hmac_secret, device_id,
    readings,        \* the working list of readings (references)
    i,               \* the loop index (offset of the current batch)
    last_timestamp,  \* <<>> is None
    total_sent, total_errors,
    request,         \* <<the request in flight>>, or <<>>
    result,          \* <<what send_readings returned>> until it is folded, or <<>>
    sends,           \* requests posted so far
    sent_batches,    \* the batches posted so far, in order
    sleeps,          \* the suspensions so far: before which batch, how long
    summary,         \* <<the final summary printed>>, or <<>>
    ending,          \* how the process ended
    exit_code,
    signatures,      \* the calls made of generate_hmac_signature on its own
    rate_limit_shown \* <<the last "Rate limit remaining" line printed>>, or <<>>

vars == <<pc, csv_file, speed, start_time, end_time, batch_size, hmac_secret,
          device_id, readings, i, last_timestamp, total_sent, total_errors,
          request, result, sends, sent_batches, sleeps, summary, ending,
          exit_code, signatures, rate_limit_shown>>

config == <<csv_file, speed, start_time, end_time, batch_size, hmac_secret,
            device_id>>

(***************************************************************************)
(* load_csv_data: the per-row conversions                                  *)
(***************************************************************************)

\* str.strip(): leading and trailing blanks removed.
RECURSIVE LStrip(_)
LStrip(s) == IF s # <<>> /\ Head(s) = " " THEN LStrip(Tail(s)) ELSE s

RECURSIVE RStrip(_)
RStrip(s) ==
    IF s # <<>> /\ s[Len(s)] = " " THEN RStrip(SubSeq(s, 1, Len(s) - 1)) ELSE s

Strip(s) == RStrip(LStrip(s))

HexDigits == Digits \cup {"a", "b", "c", "d", "e", "f", "A", "B", "C", "D", "E", "F"}

RECURSIVE Without(_, _)
Without(s, cs) ==
    IF s = <<>> THEN <<>>
    ELSE IF Head(s) \in cs THEN Without(Tail(s), cs)
    ELSE <<Head(s)>> \o Without(Tail(s), cs)

RECURSIVE StripBraces(_)
StripBraces(s) ==
    IF s # <<>> /\ Head(s) \in {"{", "}"} THEN StripBraces(Tail(s))
    ELSE IF s # <<>> /\ s[Len(s)] \in {"{", "}"}
    THEN StripBraces(SubSeq(s, 1, Len(s) - 1))
    ELSE s

\* uuid.UUID(s) does not raise: braces stripped, hyphens removed, 32
\* hexadecimal digits left.
IsUuid(s) ==
    LET hex == Without(StripBraces(s), {"-"})
    IN  Len(hex) = 32 /\ \A k \in 1..32 : hex[k] \in HexDigits

\* Leading zeros of a digit string removed (one digit is kept).
RECURSIVE DropLeadingZeros(_)
DropLeadingZeros(ds) ==
    IF Len(ds) > 1 /\ Head(ds) = "0" THEN DropLeadingZeros(Tail(ds)) ELSE ds

RECURSIVE DropTrailingZeros(_)
DropTrailingZeros(ds) ==
    IF Len(ds) > 1 /\ ds[Len(ds)] = "0"
    THEN DropTrailingZeros(SubSeq(ds, 1, Len(ds) - 1)) ELSE ds

\* Where the decimal point is in s, or Len(s) + 1.
RECURSIVE PointAt(_, _)
PointAt(s, k) ==
    IF k > Len(s) THEN k ELSE IF s[k] = "." THEN k ELSE PointAt(s, k + 1)

\* float(s) for decimal literals [sign]digits[.digits]: the value as sign,
\* integer digits and fraction digits; ok is FALSE where float raises
\* ValueError.
ParseFloat(s) ==
    LET t    == Strip(s)
        neg  == t # <<>> /\ Head(t) = "-"
        body == IF t # <<>> /\ Head(t) \in {"+", "-"} THEN Tail(t) ELSE t
        k    == PointAt(body, 1)
        ip   == SubSeq(body, 1, k - 1)
        fp   == SubSeq(body, k + 1, Len(body))
        bad  == [ok |-> FALSE, neg |-> FALSE, int |-> <<>>, frac |-> <<>>]
    IN  IF (ip = <<>> /\ fp = <<>>)
           \/ ~(\A j \in 1..Len(ip) : ip[j] \in Digits)
           \/ ~(\A j \in 1..Len(fp) : fp[j] \in Digits)
        THEN bad
        ELSE [ok   |-> TRUE,
              neg  |-> neg,
              int  |-> DropLeadingZeros(IF ip = <<>> THEN <<"0">> ELSE ip),
              frac |-> DropTrailingZeros(IF fp = <<>> THEN <<"0">> ELSE fp)]

\* The row raises an exception its handler (except (ValueError, KeyError))
\* does not catch: None.strip() is an AttributeError and float(None) a
\* TypeError.
RowRaises(row) == row.cells < 3

\* One row of the source: the reading it becomes, or no reading where a
\* per-row check fails and the row is skipped (or the row raises).
LoadRow(row) ==
    LET timestamp_str == Strip(row.timestamp)
        sensor_id     == Strip(row.sensor_id)
        temperature   == ParseFloat(row.temperature_c)
    IN  IF RowRaises(row) THEN <<>>
        ELSE IF ~temperature.ok THEN <<>>
        ELSE IF ~ParseTs(timestamp_str).ok THEN <<>>
        ELSE IF ~IsUuid(sensor_id) THEN <<>>
        ELSE << [ts        |-> timestamp_str,
                 sensor_id |-> sensor_id,
                 value     |-> [neg  |-> temperature.neg,
                                int  |-> temperature.int,
                                frac |-> temperature.frac]] >>

RECURSIVE LoadRows(_)
LoadRows(rows) ==
    IF rows = <<>> THEN <<>> ELSE <<LoadRow(Head(rows))>> \o LoadRows(Tail(rows))

\* The reading each kind of row becomes (<<>> for a row that is skipped).
ReadingOf == LoadRows(RowPool)

\* A reading is the dict load_csv_data made of one row of the source; it is
\* referred to by the number of that row. Rd(r) is the dict.
Rd(r) == ReadingOf[csv_file[r]][1]

Ts(r) == Rd(r).ts

\* load_csv_data: the readings of the rows that pass, in source order.
RECURSIVE LoadFrom(_, _)
LoadFrom(rows, k) ==
    IF k > Len(rows) THEN <<>>
    ELSE (IF ReadingOf[rows[k]] # <<>> THEN <<k>> ELSE <<>>) \o LoadFrom(rows, k + 1)

load_csv_data(rows) == LoadFrom(rows, 1)

\* load_csv_data raises instead of returning: a row raised past its handler
\* and the outer handler re-raised it as Exception("Error reading CSV file").
LoadAborts(rows) == \E k \in 1..Len(rows) : RowRaises(RowPool[rows[k]])

(***************************************************************************)
(* Time filter and sort (simulate_ingestion)                               *)
(***************************************************************************)

RECURSIVE SelectSeq2(_, _, _)
SelectSeq2(s, bound, keepLater) ==
    IF s = <<>> THEN <<>>
    ELSE LET t    == ParseTs(Ts(Head(s)))
             keep == IF keepLater THEN DtLeq(bound, t) ELSE DtLeq(t, bound)
         IN  (IF keep THEN <<Head(s)>> ELSE <<>>)
             \o SelectSeq2(Tail(s), bound, keepLater)

\* The start filter comparing the timestamp strings themselves.
FilterStartByString(rs, start) ==
    IF start = <<>> THEN rs ELSE SelectSeq(rs, LAMBDA r : ~StrLess(Ts(r), start))

\* if start_time: readings = [r for r in readings if parse(r.ts) >= start_dt]
FilterStart(rs, start) ==
    IF start = <<>> THEN rs ELSE SelectSeq2(rs, ParseTs(start), TRUE)

\* if end_time: readings = [r for r in readings if parse(r.ts) <= end_dt]
FilterEnd(rs, end) ==
    IF end = <<>> THEN rs ELSE SelectSeq2(rs, ParseTs(end), FALSE)

\* Applying the bound raises: fromisoformat raises ValueError on a bound it
\* cannot parse, and comparing a datetime that has an offset with one that
\* has none raises TypeError.
BoundRaises(rs, bound) ==
    /\ bound # <<>>
    /\ \/ ~ParseTs(bound).ok
       \/ \E k \in 1..Len(rs) : ParseTs(Ts(rs[k])).aware # ParseTs(bound).aware

\* The filter raises at the start bound, or else at the end bound (applied
\* to what the start bound kept).
FilterRaises(rs, start, end) ==
    \/ BoundRaises(rs, start)
    \/ BoundRaises(FilterStart(rs, start), end)

\* The key readings.sort compares.
SortKeyLess(a, b) == StrLess(Ts(a), Ts(b))

\* r placed into the sorted list s after every element that is not greater.
RECURSIVE InsertSorted(_, _)
InsertSorted(s, r) ==
    IF s = <<>> THEN <<r>>
    ELSE IF SortKeyLess(r, Head(s)) THEN <<r>> \o s
    ELSE <<Head(s)>> \o InsertSorted(Tail(s), r)

\* readings.sort(key=lambda x: x['ts']): a stable sort by the timestamp
\* string.
RECURSIVE SortByTs(_)
SortByTs(s) ==
    IF s = <<>> THEN <<>>
    ELSE InsertSorted(SortByTs(SubSeq(s, 1, Len(s) - 1)), s[Len(s)])

(***************************************************************************)
(* send_readings: serialization and signature                              *)
(***************************************************************************)

\* The keys of the payload, as json.dumps writes them.
KEY_READINGS == <<"\"", "r", "e", "a", "d", "i", "n", "g", "s", "\"">>

KEY_TS == <<"\"", "t", "s", "\"">>

KEY_SENSOR == <<"\"", "s", "e", "n", "s", "o", "r", "_", "i", "d", "\"">>

KEY_VALUE == <<"\"", "v", "a", "l", "u", "e", "\"">>

\* repr(float) of a decimal value, as json.dumps writes it.
FloatRepr(v) == (IF v.neg THEN <<"-">> ELSE <<>>) \o v.int \o <<".">> \o v.frac

\* One reading as a JSON object; itemSep and keySep are json.dumps'
\* separators.
ReadingJson(r, itemSep, keySep) ==
    <<"{">> \o KEY_TS \o keySep \o <<"\"">> \o Rd(r).ts \o <<"\"">>
    \o itemSep \o KEY_SENSOR \o keySep \o <<"\"">> \o Rd(r).sensor_id \o <<"\"">>
    \o itemSep \o KEY_VALUE \o keySep \o FloatRepr(Rd(r).value) \o <<"}">>

RECURSIVE ReadingsJson(_, _, _)
ReadingsJson(rs, itemSep, keySep) ==
    IF rs = <<>> THEN <<>>
    ELSE IF Len(rs) = 1 THEN ReadingJson(rs[1], itemSep, keySep)
    ELSE ReadingJson(rs[1], itemSep, keySep) \o itemSep
         \o ReadingsJson(Tail(rs), itemSep, keySep)

\* json.dumps({"readings": readings}, separators=(itemSep, keySep))
JsonDumps(rs, itemSep, keySep) ==
    <<"{">> \o KEY_READINGS \o keySep \o <<"[">>
    \o ReadingsJson(rs, itemSep, keySep) \o <<"]", "}">>

\* body = json.dumps(payload, separators=(',', ':'))
SerializeBody(rs) == JsonDumps(rs, <<",">>, <<":">>)

\* hmac.new(secret, message, sha256).hexdigest(): the digest is kept as the
\* pair it is a function of; HMAC-SHA256 is taken to be injective on the
\* messages of the model.
HmacSha256Hex(secret, message) == [key |-> secret, msg |-> message]

\* A signature over a message without the device id.
SignatureWithoutDevice(secret, device, body, timestamp) ==
    HmacSha256Hex(secret, body \o timestamp)

\* A signature over a message with its fields delimited.
SignatureDelimited(secret, device, body, timestamp) ==
    HmacSha256Hex(secret, body \o <<"|">> \o timestamp \o <<"|">> \o device)

\* generate_hmac_signature: message = body + timestamp + self.device_id
generate_hmac_signature(secret, device, body, timestamp) ==
    HmacSha256Hex(secret, body \o timestamp \o device)

\* RequestData with the payload serialized again, with json.dumps' default
\* separators (json=payload in place of data=body).
RequestDataReserialized(body, rs) == JsonDumps(rs, <<",", " ">>, <<":", " ">>)

\* The body the request carries: data=body.
RequestData(body, rs) == body

\* The request send_readings posts for the readings rs at clock reading now,
\* as the n-th request of the run, together with what was given to the
\* signer.
BuildRequest(rs, now, secret, device, n) ==
    LET body      == SerializeBody(rs)
        timestamp == now
        signature == generate_hmac_signature(secret, device, body, timestamp)
    IN  [data    |-> RequestData(body, rs),
         headers |-> [XTimestamp     |-> timestamp,
                      XDeviceId      |-> device,
                      XSignature     |-> signature,
                      IdempotencyKey |-> n],
         signed  |-> [body |-> body, timestamp |-> timestamp, device |-> device]]

(***************************************************************************)
(* Inter-batch delay (simulate_ingestion)                                  *)
(***************************************************************************)

RECURSIVE Gcd(_, _)
Gcd(a, b) == IF b = 0 THEN a ELSE Gcd(b, a % b)

Abs(x) == IF x < 0 THEN -x ELSE x

\* The rational n / d (d # 0) in lowest terms with a positive denominator.
Frac(n, d) ==
    LET g == Gcd(Abs(n), Abs(d))
        sg == IF d < 0 THEN -1 ELSE 1
    IN  [num |-> sg * (n \div g), den |-> sg * (d \div g)]

Zero == [num |-> 0, den |-> 1]

\* ShouldDelay with the speed tested for being non-zero.
ShouldDelayNonZero(last, spd) == last # <<>> /\ spd.num # 0

\* if last_timestamp and speed > 0
ShouldDelay(last, spd) == last # <<>> /\ spd.num > 0

\* time_diff = (current_time - last_time).total_seconds(), in microseconds
TimeDiff(first_ts, last) == DtDiff(ParseTs(first_ts), ParseTs(last))

\* delay = max(0, time_diff / speed), in microseconds
InterBatchDelay(first_ts, last, spd) ==
    LET q == Frac(TimeDiff(first_ts, last) * spd.den, spd.num)
    IN  IF q.num > 0 THEN q ELSE Zero

(***************************************************************************)
(* Batches and outcomes (simulate_ingestion, send_readings)                *)
(***************************************************************************)

Min(a, b) == IF a < b THEN a ELSE b

\* BatchAt with the slice running one element too far.
BatchAtOverlap(rs, k, size) == SubSeq(rs, k + 1, Min(k + size + 1, Len(rs)))

\* batch = readings[i:i + batch_size], i counted from 0
BatchAt(rs, k, size) == SubSeq(rs, k + 1, Min(k + size, Len(rs)))

\* LastTimestampOf with the first reading of the batch taken.
LastTimestampOfFirst(batch) == Ts(batch[1])

\* last_timestamp = batch[-1]['ts']
LastTimestampOf(batch) == Ts(batch[Len(batch)])

\* The result send_readings returns for what the transport did: the status
\* and parsed body of a response ({} for an empty body), or status 0 and an
\* empty body when the call raised a RequestException (no connection, a
\* timeout, or response.json() on a body that is not JSON).
ResultOf(reply) ==
    IF reply.exc \/ reply.content = "text"
    THEN [status_code |-> 0, has_processed |-> FALSE, processed |-> 0,
          has_errors |-> FALSE, errors |-> 0, error |-> "absent",
          rate_limit |-> "absent"]
    ELSE IF reply.content = "empty"
    THEN [status_code |-> reply.status, has_processed |-> FALSE, processed |-> 0,
          has_errors |-> FALSE, errors |-> 0, error |-> "absent",
          rate_limit |-> reply.rate_limit]
    ELSE [status_code |-> reply.status,
          has_processed |-> reply.has_processed, processed |-> reply.processed,
          has_errors |-> reply.has_errors, errors |-> reply.errors,
          error |-> reply.error, rate_limit |-> reply.rate_limit]

\* if 'X-RateLimit-Remaining' in result.get('headers', {}): print it. The
\* last such line printed, after the result of batch n.
ShowRateLimit(res, shown, n) ==
    IF res.rate_limit # "absent"
    THEN << [batch |-> n, remaining |-> res.rate_limit] >>
    ELSE shown

\* Fold with a batch counted as failed when the response says that no
\* request remains.
FoldRateLimited(res, batch, sent, errs) ==
    IF res.status_code = 200 /\ res.rate_limit # "0"
    THEN [sent |-> sent + (IF res.has_processed THEN res.processed ELSE 0),
          errs |-> errs + (IF res.has_errors THEN res.errors ELSE 0)]
    ELSE [sent |-> sent, errs |-> errs + Len(batch)]

\* Fold with every reading of an accepted batch counted as sent.
FoldWholeBatchSent(res, batch, sent, errs) ==
    IF res.status_code = 200
    THEN [sent |-> sent + Len(batch),
          errs |-> errs + (IF res.has_errors THEN res.errors ELSE 0)]
    ELSE [sent |-> sent, errs |-> errs + Len(batch)]

\* Fold with a failed batch counted as batch_size readings.
FoldBatchSize(res, batch, sent, errs) ==
    IF res.status_code = 200
    THEN [sent |-> sent + (IF res.has_processed THEN res.processed ELSE 0),
          errs |-> errs + (IF res.has_errors THEN res.errors ELSE 0)]
    ELSE [sent |-> sent, errs |-> errs + batch_size]

\* The totals after the result of one batch is folded in.
Fold(res, batch, sent, errs) ==
    IF res.status_code = 200
    THEN [sent |-> sent + (IF res.has_processed THEN res.processed ELSE 0),
          errs |-> errs + (IF res.has_errors THEN res.errors ELSE 0)]
    ELSE [sent |-> sent, errs |-> errs + Len(batch)]

(***************************************************************************)
(* The run: main and simulate_ingestion                                    *)
(***************************************************************************)

Init ==
    /\ pc = "main"
    /\ csv_file \in SeqsUpTo(ReplayKinds, MaxRows)
    /\ speed \in SpeedPool
    /\ start_time \in StartPool
    /\ end_time \in EndPool
    /\ batch_size \in BatchSizePool
    /\ hmac_secret \in SecretPool
    /\ device_id \in DevicePool
    /\ readings = <<>>
    /\ i = 0
    /\ last_timestamp = <<>>
    /\ total_sent = 0
    /\ total_errors = 0
    /\ request = <<>>
    /\ result = <<>>
    /\ sends = 0
    /\ sent_batches = <<>>
    /\ sleeps = <<>>
    /\ summary = <<>>
    /\ ending = "running"
    /\ exit_code = 0
    /\ signatures = <<>>
    /\ rate_limit_shown = <<>>

\* The process ends: how, and with which exit status.
Exit(how, code) ==
    /\ pc' = "exit"
    /\ ending' = how
    /\ exit_code' = code

\* main: the secret is required; then the simulator is created and run.
Main ==
    /\ pc = "main"
    /\ IF hmac_secret = <<>>
       THEN Exit("config_error", 1)
       ELSE pc' = "load" /\ UNCHANGED <<ending, exit_code>>
    /\ UNCHANGED <<config, signatures, rate_limit_shown, readings, i, last_timestamp, total_sent,
                   total_errors, request, result, sends, sent_batches, sleeps, summary>>

\* simulate_ingestion: load the source; return at once when it holds no
\* valid reading. An exception of the loader ends main with status 1.
Load ==
    /\ pc = "load"
    /\ IF LoadAborts(csv_file)
       THEN UNCHANGED readings /\ Exit("error", 1)
       ELSE /\ readings' = load_csv_data(csv_file)
            /\ IF readings' = <<>>
               THEN Exit("no_readings", 0)
               ELSE pc' = "filter" /\ UNCHANGED <<ending, exit_code>>
    /\ UNCHANGED <<config, signatures, rate_limit_shown, i, last_timestamp, total_sent, total_errors,
                   request, result, sends, sent_batches, sleeps, summary>>

\* simulate_ingestion: the time filter. An exception ends main with status
\* 1.
Filter ==
    /\ pc = "filter"
    /\ IF FilterRaises(readings, start_time, end_time)
       THEN UNCHANGED readings /\ Exit("error", 1)
       ELSE /\ readings' = FilterEnd(FilterStart(readings, start_time), end_time)
            /\ pc' = "sort"
            /\ UNCHANGED <<ending, exit_code>>
    /\ UNCHANGED <<config, signatures, rate_limit_shown, i, last_timestamp, total_sent, total_errors,
                   request, result, sends, sent_batches, sleeps, summary>>

\* simulate_ingestion: sort, print the header (readings[0] raises
\* IndexError on an empty list) and set up the loop (range raises
\* ValueError on a step of zero). An exception ends main with status 1.
Sort ==
    /\ pc = "sort"
    /\ readings' = SortByTs(readings)
    /\ IF readings' = <<>> \/ batch_size = 0
       THEN Exit("error", 1)
       ELSE pc' = "loop" /\ UNCHANGED <<ending, exit_code>>
    /\ i' = 0
    /\ last_timestamp' = <<>>
    /\ total_sent' = 0
    /\ total_errors' = 0
    /\ UNCHANGED <<config, signatures, rate_limit_shown, request, result, sends, sent_batches, sleeps, summary>>

\* The loop index advancing by one reading.
NextIndexByOne(k, size) == k + 1

\* range(0, len(readings), batch_size): the index after k.
NextIndex(k, size) == k + size

\* for i in range(0, len(readings), batch_size): the range holds i when the
\* step is positive and i is below the length; a negative step from 0 gives
\* an empty range.
InRange == batch_size > 0 /\ i < Len(readings)

\* The top of the loop body: take the batch and suspend when a delay is due;
\* or leave the loop.
LoopHead ==
    /\ pc = "loop"
    /\ IF ~InRange
       THEN pc' = "summary" /\ UNCHANGED sleeps
       ELSE LET batch == BatchAt(readings, i, batch_size)
                delay == InterBatchDelay(Ts(batch[1]), last_timestamp, speed)
            IN  IF ShouldDelay(last_timestamp, speed) /\ delay.num > 0
                THEN /\ pc' = "sleep"
                     /\ sleeps' = Append(sleeps, [before |-> Len(sent_batches) + 1,
                                                  delay  |-> delay])
                ELSE pc' = "send" /\ UNCHANGED sleeps
    /\ UNCHANGED <<config, signatures, rate_limit_shown, readings, i, last_timestamp, total_sent, total_errors,
                   request, result, sends, sent_batches, summary, ending, exit_code>>

\* time.sleep(delay) returns.
Sleep ==
    /\ pc = "sleep"
    /\ pc' = "send"
    /\ UNCHANGED <<config, signatures, rate_limit_shown, readings, i, last_timestamp, total_sent, total_errors,
                   request, result, sends, sent_batches, sleeps, summary, ending,
                   exit_code>>

\* send_readings up to session.post: the request goes out.
Post(now) ==
    /\ pc = "send"
    /\ LET batch == BatchAt(readings, i, batch_size)
       IN  /\ request' = <<BuildRequest(batch, now, hmac_secret, device_id,
                                        sends + 1)>>
           /\ sent_batches' = Append(sent_batches, batch)
    /\ sends' = sends + 1
    /\ pc' = "post"
    /\ UNCHANGED <<config, signatures, rate_limit_shown, readings, i, last_timestamp, total_sent, total_errors,
                   result, sleeps, summary, ending, exit_code>>

\* The transport answers (or raises) and send_readings returns its result.
Receive(reply) ==
    /\ pc = "post"
    /\ result' = <<ResultOf(reply)>>
    /\ request' = <<>>
    /\ pc' = "fold"
    /\ UNCHANGED <<config, signatures, rate_limit_shown, readings, i, last_timestamp, total_sent, total_errors,
                   sends, sent_batches, sleeps, summary, ending, exit_code>>

\* The rest of the loop body: the result is folded into the totals, the
\* last timestamp is kept and the loop moves on.
FoldResult ==
    /\ pc = "fold"
    /\ LET batch  == BatchAt(readings, i, batch_size)
           totals == Fold(result[1], batch, total_sent, total_errors)
       IN  /\ total_sent' = totals.sent
           /\ total_errors' = totals.errs
           /\ last_timestamp' = LastTimestampOf(batch)
    /\ rate_limit_shown' = ShowRateLimit(result[1], rate_limit_shown,
                                          Len(sent_batches))
    /\ result' = <<>>
    /\ i' = NextIndex(i, batch_size)
    /\ pc' = "loop"
    /\ UNCHANGED <<config, signatures, readings, request, sends, sent_batches, sleeps,
                   summary, ending, exit_code>>

\* After the loop: the totals and the success rate total_sent / len(readings)
\* are printed (a division by zero raises and ends main with status 1).
Summary ==
    /\ pc = "summary"
    /\ IF Len(readings) = 0
       THEN Exit("error", 1) /\ UNCHANGED summary
       ELSE /\ summary' = << [total_sent   |-> total_sent,
                              total_errors |-> total_errors,
                              rate         |-> Frac(total_sent * 100, Len(readings))] >>
            /\ Exit("complete", 0)
    /\ UNCHANGED <<config, signatures, rate_limit_shown, readings, i, last_timestamp, total_sent, total_errors,
                   request, result, sends, sent_batches, sleeps>>

\* Where simulate_ingestion is running.
Running ==
    pc \in {"load", "filter", "sort", "loop", "sleep", "send", "post", "fold", "summary"}

\* KeyboardInterrupt is raised wherever simulate_ingestion is; main catches
\* it, prints "Simulation interrupted by user" and returns.
Interrupt ==
    /\ Running
    /\ Exit("interrupted", 0)
    /\ UNCHANGED <<config, signatures, rate_limit_shown, readings, i, last_timestamp, total_sent, total_errors,
                   request, result, sends, sent_batches, sleeps, summary>>

Next ==
    \/ Main
    \/ Load
    \/ Filter
    \/ Sort
    \/ LoopHead
    \/ Sleep
    \/ \E now \in NowPool : Post(now)
    \/ \E reply \in Replies : Receive(reply)
    \/ FoldResult
    \/ Summary
    \/ Interrupt

Spec == Init /\ [][Next]_vars

\* The loader on its own: simulate_ingestion is about to load a source made
\* of rows of every kind.
LoaderInit ==
    /\ pc = "load"
    /\ csv_file \in SeqsUpTo(1..Len(RowPool), MaxRows)
    /\ speed = [num |-> 1, den |-> 1]
    /\ start_time = <<>>
    /\ end_time = <<>>
    /\ batch_size = 1
    /\ hmac_secret = <<"s", "3", "c", "r", "3", "t">>
    /\ device_id = <<"d", "1">>
    /\ readings = <<>>
    /\ i = 0
    /\ last_timestamp = <<>>
    /\ total_sent = 0
    /\ total_errors = 0
    /\ request = <<>>
    /\ result = <<>>
    /\ sends = 0
    /\ sent_batches = <<>>
    /\ sleeps = <<>>
    /\ summary = <<>>
    /\ ending = "running"
    /\ exit_code = 0
    /\ signatures = <<>>
    /\ rate_limit_shown = <<>>

LoaderNext == Load

LoaderSpec == LoaderInit /\ [][LoaderNext]_vars

\* The time filter on its own: the source is loaded and simulate_ingestion
\* is about to apply the bounds.
FilterInit ==
    /\ pc = "filter"
    /\ csv_file \in SeqsUpTo(ReplayKinds, MaxRows)
    /\ speed = [num |-> 1, den |-> 1]
    /\ start_time \in BoundPool
    /\ end_time \in BoundPool
    /\ batch_size = 1
    /\ hmac_secret = <<"s", "3", "c", "r", "3", "t">>
    /\ device_id = <<"d", "1">>
    /\ readings = load_csv_data(csv_file)
    /\ readings # <<>>
    /\ i = 0
    /\ last_timestamp = <<>>
    /\ total_sent = 0
    /\ total_errors = 0
    /\ request = <<>>
    /\ result = <<>>
    /\ sends = 0
    /\ sent_batches = <<>>
    /\ sleeps = <<>>
    /\ summary = <<>>
    /\ ending = "running"
    /\ exit_code = 0
    /\ signatures = <<>>
    /\ rate_limit_shown = <<>>

FilterNext == Filter

FilterSpec == FilterInit /\ [][FilterNext]_vars

\* A run against a server whose responses may carry the
\* X-RateLimit-Remaining header.
RateLimitInit ==
    /\ pc = "main"
    /\ csv_file \in SeqsUpTo(ReplayKinds, MaxRows)
    /\ speed = [num |-> 3, den |-> 2]
    /\ start_time = <<>>
    /\ end_time = <<>>
    /\ batch_size \in 1..MaxBatch
    /\ hmac_secret = <<"s", "3", "c", "r", "3", "t">>
    /\ device_id = <<"d", "1">>
    /\ readings = <<>>
    /\ i = 0
    /\ last_timestamp = <<>>
    /\ total_sent = 0
    /\ total_errors = 0
    /\ request = <<>>
    /\ result = <<>>
    /\ sends = 0
    /\ sent_batches = <<>>
    /\ sleeps = <<>>
    /\ summary = <<>>
    /\ ending = "running"
    /\ exit_code = 0
    /\ signatures = <<>>
    /\ rate_limit_shown = <<>>

RateLimitNext ==
    \/ Main
    \/ Load
    \/ Filter
    \/ Sort
    \/ LoopHead
    \/ Sleep
    \/ \E now \in NowPool : Post(now)
    \/ \E reply \in RateLimitReplies : Receive(reply)
    \/ FoldResult
    \/ Summary
    \/ Interrupt

RateLimitSpec == RateLimitInit /\ [][RateLimitNext]_vars

\* The response accounts for a batch of n readings: if it is a 2xx response
\* with a body that parses, its processed count (0 if absent) and the length
\* of its errors list (0 if absent) add up to n.
Conforms(reply, n) ==
    (~reply.exc /\ reply.status \in 200..299 /\ reply.content # "text") =>
        (IF reply.has_processed THEN reply.processed ELSE 0)
        + (IF reply.has_errors THEN reply.errors ELSE 0) = n

\* A run against a server whose accepting responses account for every
\* reading of the batch.
ConservationInit == RateLimitInit

ConservationNext ==
    \/ Main
    \/ Load
    \/ Filter
    \/ Sort
    \/ LoopHead
    \/ Sleep
    \/ \E now \in NowPool : Post(now)
    \/ \E reply \in { r \in Replies :
                         pc = "post"
                         /\ Conforms(r, Len(sent_batches[Len(sent_batches)])) } :
          Receive(reply)
    \/ FoldResult
    \/ Summary
    \/ Interrupt

ConservationSpec == ConservationInit /\ [][ConservationNext]_vars

\* The signer on its own: simulators are constructed and their
\* generate_hmac_signature is called directly.
SignerInit ==
    /\ pc = "signer"
    /\ csv_file = <<>>
    /\ speed = [num |-> 1, den |-> 1]
    /\ start_time = <<>>
    /\ end_time = <<>>
    /\ batch_size = 1
    /\ hmac_secret \in SignSecretPool
    /\ device_id \in SignDevicePool
    /\ readings = <<>>
    /\ i = 0
    /\ last_timestamp = <<>>
    /\ total_sent = 0
    /\ total_errors = 0
    /\ request = <<>>
    /\ result = <<>>
    /\ sends = 0
    /\ sent_batches = <<>>
    /\ sleeps = <<>>
    /\ summary = <<>>
    /\ ending = "running"
    /\ exit_code = 0
    /\ signatures = <<>>
    /\ rate_limit_shown = <<>>

\* IngestionSimulator(api_url, hmac_secret, device_id): another simulator.
Construct(secret, device) ==
    /\ pc = "signer"
    /\ hmac_secret' = secret
    /\ device_id' = device
    /\ UNCHANGED <<pc, csv_file, speed, start_time, end_time, batch_size,
                   readings, i, last_timestamp, total_sent, total_errors,
                   request, result, sends, sent_batches, sleeps, summary,
                   ending, exit_code, signatures, rate_limit_shown>>

\* simulator.generate_hmac_signature(body, timestamp)
Sign(body, timestamp) ==
    /\ pc = "signer"
    /\ Len(signatures) < MaxCalls
    /\ signatures' = Append(signatures,
           [secret    |-> hmac_secret,
            device    |-> device_id,
            body      |-> body,
            timestamp |-> timestamp,
            signature |-> generate_hmac_signature(hmac_secret, device_id,
                                                  body, timestamp)])
    /\ UNCHANGED <<pc, config, readings, i, last_timestamp, total_sent,
                   total_errors, request, result, sends, sent_batches, sleeps,
                   summary, ending, exit_code, rate_limit_shown>>

SignerNext ==
    \/ \E secret \in SignSecretPool, device \in SignDevicePool :
          Construct(secret, device)
    \/ \E body \in SignBodyPool, timestamp \in SignTimestampPool :
          Sign(body, timestamp)

SignerSpec == SignerInit /\ [][SignerNext]_vars

(***************************************************************************)
(* Properties                                                              *)
(***************************************************************************)

\* The readings posted so far, in the order they were posted.
RECURSIVE Flatten(_)
Flatten(batches) ==
    IF batches = <<>> THEN <<>> ELSE Head(batches) \o Flatten(Tail(batches))

Posted == Flatten(sent_batches)

Occurrences(s, x) == Cardinality({ j \in 1..Len(s) : s[j] = x })

\* The instant a reading's timestamp denotes.
InstantOf(r) == ParseTs(Ts(r))

\* C1: with a batch size of at least 1, every batch posted holds between 1
\* and batch_size readings, the batches are consecutive slices of the sorted
\* list (posted so far = a prefix of it, no reading twice), and when the run
\* completes their concatenation is the whole sorted list, every reading
\* exactly once.
C1_BatchesPartitionSorted ==
    batch_size >= 1 =>
        /\ \A k \in 1..Len(sent_batches) :
               Len(sent_batches[k]) >= 1 /\ Len(sent_batches[k]) <= batch_size
        /\ \A k \in 1..(Len(sent_batches) - 1) : Len(sent_batches[k]) = batch_size
        /\ Len(Posted) <= Len(readings)
        /\ Posted = SubSeq(readings, 1, Len(Posted))
        /\ \A j \in 1..Len(Posted) : Occurrences(Posted, Posted[j]) = 1
        /\ ending = "complete" =>
               /\ Posted = readings
               /\ \A r \in 1..Len(csv_file) : Occurrences(Posted, r) = 1

\* A completed run of three readings in batches of two: a full batch and a
\* shorter last one.
C1_Witness ==
    /\ ending = "complete"
    /\ batch_size = 2
    /\ Len(readings) = 3
    /\ Len(sent_batches) = 2
    /\ Len(sent_batches[2]) = 1

\* C2: readings are posted in ascending order of the instants their
\* timestamps denote, whatever the notation, and at most one request is in
\* flight.
C2_PostedInInstantOrder ==
    /\ \A j, k \in 1..Len(Posted) :
           j < k => DtLeq(InstantOf(Posted[j]), InstantOf(Posted[k]))
    /\ Len(request) <= 1

\* A result of an HTTP 2xx response.
AcceptedResult(res) == res.status_code \in 200..299

\* A result of a non-2xx response, or of no response at all (status 0).
FailedResult(res) == ~(res.status_code \in 200..299)

\* The batch whose result is being folded.
BatchInFlight == sent_batches[Len(sent_batches)]

\* C3: an Accepted result (any 2xx status) adds the reported processed count
\* (0 if absent) to the success total and the length of the reported errors
\* list (0 if absent) to the error total, and nothing else.
C3_AcceptedAddsReported ==
    [][(pc = "fold" /\ pc' = "loop" /\ AcceptedResult(result[1])) =>
           /\ total_sent' = total_sent
                  + (IF result[1].has_processed THEN result[1].processed ELSE 0)
           /\ total_errors' = total_errors
                  + (IF result[1].has_errors THEN result[1].errors ELSE 0)]_vars

C5_SignedWhatIsSent ==
    request # <<>> =>
        LET rq == request[1] IN
        /\ rq.data = rq.signed.body
        /\ rq.headers.XTimestamp = rq.signed.timestamp
        /\ rq.headers.XDeviceId = rq.signed.device
        /\ rq.headers.XDeviceId = device_id
        /\ rq.headers.XSignature =
               HmacSha256Hex(hmac_secret,
                             rq.data \o rq.headers.XTimestamp \o rq.headers.XDeviceId)

\* A request carrying two readings is in flight.
C5_Witness ==
    /\ pc = "post"
    /\ request # <<>>
    /\ Len(BatchInFlight) = 2

\* C6: a batch size of zero or less is rejected before the run starts: no
\* batch is posted and the run does not complete with a final summary.
C6_NonPositiveBatchSizeRejected ==
    batch_size <= 0 =>
        /\ sends = 0
        /\ ending # "complete"
        /\ summary = <<>>

\* The readings that are left after the time filter.
Filtered == FilterEnd(FilterStart(load_csv_data(csv_file), start_time), end_time)

\* C7: when the source holds valid readings and none is inside the time
\* range, the run ends cleanly: status 0, no error, no request, totals 0.
C7_EmptyAfterFilterEndsCleanly ==
    (/\ pc = "exit"
     /\ ending \notin {"config_error", "interrupted"}
     /\ load_csv_data(csv_file) # <<>>
     /\ Filtered = <<>>) =>
        /\ ending # "error"
        /\ exit_code = 0
        /\ sends = 0
        /\ total_sent = 0
        /\ total_errors = 0

\* C8: a run interrupted after it has posted a batch is interrupted between
\* batches (no request is in flight) and the totals accumulated so far are
\* reported.
C8_InterruptBetweenBatchesReportsTotals ==
    (ending = "interrupted" /\ sends >= 1) =>
        /\ request = <<>>
        /\ summary # <<>>
        /\ summary[1].total_sent = total_sent
        /\ summary[1].total_errors = total_errors

\* The time from the last reading of batch k - 1 to the first reading of
\* batch k, in microseconds.
GapBefore(k) ==
    DtDiff(InstantOf(sent_batches[k][1]),
           InstantOf(sent_batches[k - 1][Len(sent_batches[k - 1])]))

\* C9: with a speed of zero or less the run never suspends, and a run that
\* completes has posted every reading.
C9_NoDelayAtNonPositiveSpeed ==
    speed.num <= 0 =>
        /\ sleeps = <<>>
        /\ pc # "sleep"
        /\ (batch_size >= 1 /\ ending = "complete") => Posted = readings

\* A completed run at a speed of zero or less, in which a later batch starts
\* after the one before it ended, and one in which it starts before.
C9_Witness ==
    /\ speed.num <= 0
    /\ ending = "complete"
    /\ Len(sent_batches) = 3
    /\ GapBefore(2) < 0
    /\ GapBefore(3) > 0

\* The suspensions made before batch k.
SleepsBefore(k) == { j \in 1..Len(sleeps) : sleeps[j].before = k }

\* C10: nothing is slept before the first batch; before a later batch k,
\* with a positive speed, the run sleeps once, for the gap before k divided
\* by the speed, when the gap is positive, and not at all otherwise,
\* whatever the result of batch k - 1 was.
C10_DelayIsGapOverSpeed ==
    /\ SleepsBefore(1) = {}
    /\ \A j \in 1..Len(sleeps) : sleeps[j].before <= Len(sent_batches) + 1
    /\ speed.num > 0 =>
           \A k \in 2..Len(sent_batches) :
               IF GapBefore(k) > 0
               THEN /\ Cardinality(SleepsBefore(k)) = 1
                    /\ \A j \in SleepsBefore(k) :
                           sleeps[j].delay.num * speed.num
                               = GapBefore(k) * speed.den * sleeps[j].delay.den
               ELSE SleepsBefore(k) = {}

\* The first batch has failed (all of it counted as errors, more than any
\* response reports), the second batch starts after the first ended, and the
\* run has slept once and then posted it.
C10_Witness ==
    /\ speed.num > 0
    /\ pc = "post"
    /\ Len(sent_batches) = 2
    /\ Len(sent_batches[1]) > MaxReported
    /\ total_sent = 0
    /\ total_errors = Len(sent_batches[1])
    /\ GapBefore(2) > 0
    /\ Len(sleeps) = 1

\* The row passes every per-row check of the loader: all three cells are
\* there, the value is a number, the timestamp parses and the sensor id is a
\* UUID.
PassesChecks(row) ==
    /\ row.cells = 3
    /\ ParseFloat(row.temperature_c).ok
    /\ ParseTs(Strip(row.timestamp)).ok
    /\ IsUuid(Strip(row.sensor_id))

\* The rows of the source that pass every check, in source order.
PassingRows == SelectSeq([k \in 1..Len(csv_file) |-> k],
                         LAMBDA k : PassesChecks(RowPool[csv_file[k]]))

\* C11: the source has all required columns; once load_csv_data is over, no
\* bad row has aborted the run: the rows that fail a check were skipped and
\* the readings are exactly the rows that pass all checks, in source order.
C11_BadRowSkippedNotFatal ==
    (pc # "load") => (ending # "error" /\ readings = PassingRows)

\* Instant a is strictly before instant b.
Before(a, b) == a.sec < b.sec \/ (a.sec = b.sec /\ a.us < b.us)

\* A bound is omitted or designates an instant.
IsInstantOrOmitted(bound) ==
    bound = <<>> \/ (ParseTs(bound).ok /\ ParseTs(bound).aware)

\* The instant of reading r lies within the bounds of the run.
InWindow(r) ==
    /\ start_time = <<>> \/ ~Before(InstantOf(r), ParseTs(start_time))
    /\ end_time = <<>> \/ ~Before(ParseTs(end_time), InstantOf(r))

\* C12: with bounds that are omitted or instants, the time filter keeps
\* exactly the loaded readings whose instant t has start <= t <= end, in
\* their order, whatever the notation of the timestamps; with both bounds
\* omitted the readings are unchanged, and with start and end the same
\* instant only the readings at that instant remain.
C12_FilterKeepsInstantsInWindow ==
    (pc # "filter" /\ IsInstantOrOmitted(start_time)
                    /\ IsInstantOrOmitted(end_time)) =>
        /\ pc = "sort"
        /\ readings = SelectSeq(load_csv_data(csv_file), InWindow)
        /\ (start_time = <<>> /\ end_time = <<>>) =>
               readings = load_csv_data(csv_file)
        /\ (start_time # <<>> /\ end_time # <<>>
              /\ ~Before(ParseTs(start_time), ParseTs(end_time))
              /\ ~Before(ParseTs(end_time), ParseTs(start_time))) =>
               \A k \in 1..Len(readings) :
                   /\ ~Before(InstantOf(readings[k]), ParseTs(start_time))
                   /\ ~Before(ParseTs(start_time), InstantOf(readings[k]))

\* The filter has run with start and end the same instant ("...00:00:01Z");
\* it kept a reading at that instant written with another offset
\* ("...01:00:01+01:00") and dropped another reading.
C12_Witness ==
    /\ pc = "sort"
    /\ start_time = TS_E
    /\ end_time = TS_E
    /\ Len(readings) = 1
    /\ Ts(readings[1]) = TS_D
    /\ Len(load_csv_data(csv_file)) > 1

\* ceil(n / b) for b >= 1.
Ceil(n, b) == (n + b - 1) \div b

\* C13: with a batch size b >= 1, every batch is posted once and no request
\* is repeated whatever the outcome: between batches the requests made are
\* those of the batches before the loop index, there are never more than
\* ceil(n / b), and a run that completes over n >= 1 readings has made
\* exactly ceil(n / b) (one when b > n).
C13_OneRequestPerBatch ==
    /\ sends = Len(sent_batches)
    /\ (batch_size >= 1 /\ pc = "loop") => sends * batch_size = i
    /\ (batch_size >= 1 /\ pc \in {"loop", "sleep", "send", "post", "fold", "summary"}) =>
           sends <= Ceil(Len(readings), batch_size)
    /\ (batch_size >= 1 /\ ending = "complete") =>
           /\ Len(readings) >= 1
           /\ sends = Ceil(Len(readings), batch_size)
           /\ (batch_size > Len(readings)) => sends = 1

\* A run over three readings with batch size 2 completed with two requests,
\* both of which failed.
C13_Witness ==
    /\ ending = "complete"
    /\ batch_size = 2
    /\ Len(readings) = 3
    /\ sends = 2
    /\ total_errors = 3

\* C14: generate_hmac_signature is a function of (secret, body, timestamp,
\* device id) alone: whatever calls came before, two calls with the same
\* inputs return the same signature, and two calls that differ in exactly
\* one of body, timestamp and device id sign different messages.
C14_SignatureIsPureAndSensitive ==
    \A a, b \in 1..Len(signatures) :
        LET x == signatures[a]
            y == signatures[b]
        IN  /\ (x.secret = y.secret /\ x.body = y.body
                  /\ x.timestamp = y.timestamp /\ x.device = y.device) =>
                   x.signature = y.signature
            /\ (x.body # y.body /\ x.timestamp = y.timestamp
                  /\ x.device = y.device) =>
                   x.signature.msg # y.signature.msg
            /\ (x.body = y.body /\ x.timestamp # y.timestamp
                  /\ x.device = y.device) =>
                   x.signature.msg # y.signature.msg
            /\ (x.body = y.body /\ x.timestamp = y.timestamp
                  /\ x.device # y.device) =>
                   x.signature.msg # y.signature.msg

\* Two calls were made that differ in the device id only, with the same
\* secret.
C14_Witness ==
    /\ Len(signatures) = 2
    /\ signatures[1].secret = signatures[2].secret
    /\ signatures[1].body = signatures[2].body
    /\ signatures[1].timestamp = signatures[2].timestamp
    /\ signatures[1].device # signatures[2].device
    /\ signatures[1].signature # signatures[2].signature

\* The message of a call when its fields are written one after another.
Concatenation(call) == call.body \o call.timestamp \o call.device

\* C17: the signature depends only on the secret and on body + timestamp +
\* device id written one after another: two calls with the same secret whose
\* concatenations are equal return the same signature, wherever the
\* boundaries between the fields lie.
C17_SignatureIgnoresFieldBoundaries ==
    \A a, b \in 1..Len(signatures) :
        (/\ signatures[a].secret = signatures[b].secret
         /\ Concatenation(signatures[a]) = Concatenation(signatures[b])) =>
            signatures[a].signature = signatures[b].signature

\* Body "ab" with timestamp "c" and body "a" with timestamp "bc" were signed
\* for the same device with the same secret, and the signatures are equal.
C17_Witness ==
    /\ Len(signatures) = 2
    /\ signatures[1].secret = signatures[2].secret
    /\ signatures[1].device = signatures[2].device
    /\ signatures[1].body = <<"a", "b">>
    /\ signatures[1].timestamp = <<"c">>
    /\ signatures[2].body = <<"a">>
    /\ signatures[2].timestamp = <<"b", "c">>
    /\ signatures[1].signature = signatures[2].signature

\* The result with its X-RateLimit-Remaining header taken away.
WithoutRateLimit(res) == [res EXCEPT !.rate_limit = "absent"]

\* C15: the X-RateLimit-Remaining header does not influence the run. The
\* header exists only in the result being folded; folding leaves the run
\* (totals, loop index, last timestamp, batches posted, delays taken,
\* configuration, ending) exactly where folding the same result without the
\* header leaves it, and the header is not kept: only the line printed for
\* the operator differs. Two runs with the same readings, configuration and
\* outcomes therefore go through the same states, whatever the headers.
C15_RateLimitHeaderNotEnforced ==
    [][(pc = "fold" /\ pc' # "exit") =>
           LET blind  == WithoutRateLimit(result[1])
               totals == Fold(blind, BatchInFlight, total_sent, total_errors)
           IN  /\ total_sent' = totals.sent
               /\ total_errors' = totals.errs
               /\ last_timestamp' = Ts(BatchInFlight[Len(BatchInFlight)])
               /\ i' = i + batch_size
               /\ pc' = "loop"
               /\ result' = <<>>
               /\ UNCHANGED <<config, readings, request, sends, sent_batches,
                              sleeps, summary, ending, exit_code>>]_vars

\* The response to the first batch said that no request remains and the
\* batch was counted as the response reported; the second batch has been
\* posted all the same.
C15_Witness ==
    /\ pc = "post"
    /\ Len(sent_batches) = 2
    /\ rate_limit_shown = << [batch |-> 1, remaining |-> "0"] >>
    /\ total_sent = Len(sent_batches[1])
    /\ total_errors = 0

\* C16: when every accepting response reports processed >= 0 and processed
\* plus the length of errors equal to the length of its batch, then after
\* every completed batch the success total plus the error total is the
\* number of readings of the batches sent so far, neither total ever
\* decreases while batches are sent, and a run that completes ends with the
\* two totals adding up to the number of filtered readings.
C16_StatisticsConserved ==
    [][/\ (pc = "fold" /\ pc' = "loop") =>
              /\ total_sent' + total_errors' = Len(Posted')
              /\ total_sent' + total_errors'
                     = total_sent + total_errors + Len(BatchInFlight)
       /\ pc \in {"loop", "sleep", "send", "post", "fold", "summary"} =>
              /\ total_sent' >= total_sent
              /\ total_errors' >= total_errors
       /\ ending' = "complete" =>
              /\ total_sent' + total_errors' = Len(readings')
              /\ summary'[1].total_sent = total_sent'
              /\ summary'[1].total_errors = total_errors']_vars

\* A run over three readings in two batches completed; some readings were
\* counted as sent and some as errors.
C16_Witness ==
    /\ ending = "complete"
    /\ Len(readings) = 3
    /\ Len(sent_batches) = 2
    /\ total_sent >= 1
    /\ total_errors >= 1
    /\ total_sent + total_errors = 3

====
